---- MODULE Spec2Model ----
(***************************************************************************)
(* Image Manager page: the image collection kept in the react-query cache  *)
(* (useImages: imagesQuery + deleteImage with optimistic removal and       *)
(* rollback) and the per-image annotation store (useAnnotations).          *)
(*                                                                         *)
(* The repository holds two builds of the page, src/next.js and            *)
(* src/unnamed/part_000; the variable page says which one is running.      *)
(* An image record is represented by its id: title and url are never read  *)
(* or written by the stores.                                               *)
(***************************************************************************)
EXTENDS Integers, Sequences, FiniteSets, TLC

\* ------------------------------------------------------------------ bounds
NumImages == 2
MaxDeletes == 2
MaxAnnotations == 2
MaxAnnOps == 4

\* ------------------------------------------------------- program constants
\* react-query's retry default, used by next.js whose useQuery sets no retry
DefaultRetry == 3
\* useState<number | null>(null): the "nothing selected" value
NoSelection == -1

Pages == {"next.js", "part_000"}
ImageIds == 0 .. (NumImages - 1)

VARIABLES
    page,          \* which build of the page is running
    server,        \* ids of the records the remote source holds
    query,         \* react-query state of the ['images'] query
    revertState,   \* query state saved when the running fetch was started
    retryer,       \* the running fetch (load): phase, last failure, and
                   \* whether a delete was issued after it was issued
    mutations,     \* every deleteImage.mutate call so far, in call order; the
                   \* context of a settled one (previous) is dropped;
                   \* requested: its DELETE request went out, shownAtRequest:
                   \* items still held its id at that moment
    selected,      \* Content/PageContent: id waiting in the confirm dialog
    staleApplied,  \* the response written to data last came from a load
                   \* that a later delete had followed
    serverHist,    \* every list the remote source has held
    annMounted,    \* AnnotationCanvas is mounted
    imageId,       \* useAnnotations(imageId): id of the image shown in the
                   \* canvas, or of the image whose load crashed the page
    annotations,   \* useState<Annotation[]>([])
    color,         \* AnnotationCanvas: useState('#ff1744')
    localStorage,  \* durable store: image id -> value under "ann_" + id
    crashed,       \* an error escaped an effect: React has unmounted the page
    counterRef,    \* part_000 useAnnotations: useRef(0)
    annOps,        \* annotation-store operations so far
    lastOp         \* the annotation-store operation that ran last

imgVars == <<page, server, query, revertState, retryer, mutations, selected,
             staleApplied, serverHist>>

annVars == <<annMounted, imageId, annotations, color, localStorage, crashed,
             counterRef, annOps, lastOp>>

vars == <<imgVars, annVars>>

\* ------------------------------------------------------------ data values
NoData == [kind |-> "undefined", list |-> <<>>]
ArrayData(l) == [kind |-> "array", list |-> l]
ObjectData == [kind |-> "object", list |-> <<>>]

Range(s) == {s[i] : i \in 1 .. Len(s)}

Min(S) == CHOOSE x \in S : \A y \in S : x <= y

RECURSIVE Ascending(_)
Ascending(S) == IF S = {} THEN <<>> ELSE <<Min(S)>> \o Ascending(S \ {Min(S)})

\* GET /images: the remote list in server order
serverList(S) == Ascending(S)

\* old.filter(i => i.id !== id)
filterOut(list, id) == SelectSeq(list, LAMBDA i : i # id)

\* ------------------------------------------------------ annotation values
Colors == {"#ff1744", "#2979ff", "#00c853"}
\* generated annotation ids: as many as annotations can be held
IdPool == <<"t1-r1", "t2-r2", "t3-r3", "t4-r4">>
AnnIds == {IdPool[k] : k \in 1 .. MaxAnnotations}
DragTargets == {<<10, 20>>}

\* JSON text is a sequence of tokens
LB == [t |-> "[", s |-> "", n |-> 0]
RB == [t |-> "]", s |-> "", n |-> 0]
Str(v) == [t |-> "str", s |-> v, n |-> 0]
Num(v) == [t |-> "num", s |-> "", n |-> v]

\* localStorage values: getItem returns null for a key never set
Absent == [present |-> FALSE, text |-> <<>>]
Stored(text) == [present |-> TRUE, text |-> text]

InitialQuery ==
    [data |-> NoData, status |-> "pending", error |-> "none",
     fetchStatus |-> "idle", fetchFailureCount |-> 0]

IdleRetryer == [phase |-> "idle", lastFailure |-> "none", deleteSince |-> FALSE]

\* the query client as one value, threaded through the cache operations;
\* issued counts the loads the current handler has issued
Client ==
    [query |-> query, revertState |-> revertState, retryer |-> retryer,
     issued |-> 0]

Commit(c) ==
    /\ query' = c.query
    /\ revertState' = c.revertState
    /\ retryer' = c.retryer

\* --------------------------------------------------------------- fetching
\* fetchImages: what the query function makes of a response
fetchImages(pg, payload) ==
    IF payload.kind = "transport"
    THEN [ok |-> FALSE, data |-> NoData, error |-> "transport"]
    ELSE IF payload.kind = "object" /\ pg = "part_000"
    THEN [ok |-> FALSE, data |-> NoData, error |-> "validation"]
    ELSE [ok |-> TRUE, data |-> [kind |-> payload.kind, list |-> payload.list],
          error |-> "none"]

\* imagesQuery.retry: called with the number of failures before this one
retry(pg, count, error) ==
    IF pg = "part_000" THEN count < 2 ELSE count < DefaultRetry

\* a fetch is started: the state is saved for a later revert and a request
\* goes out. The fetch it replaces, if any, is cancelled: its retryer ignores
\* the response, so its request leaves the model here.
startFetch(c) ==
    LET q == c.query
    IN  [c EXCEPT
            !.revertState = q,
            !.query = [q EXCEPT
                          !.fetchStatus = "fetching",
                          !.fetchFailureCount = 0,
                          !.status = IF q.data.kind = "undefined" THEN "pending" ELSE @,
                          !.error = IF q.data.kind = "undefined" THEN "none" ELSE @],
            !.retryer = [phase |-> "inflight", lastFailure |-> "none",
                         deleteSince |-> FALSE],
            !.issued = @ + 1]

\* Query.fetch: a running fetch is reused, unless data exists and
\* cancelRefetch is set: then it is cancelled silently and replaced
fetch(c, cancelRefetch) ==
    IF c.query.fetchStatus # "idle"
    THEN IF c.query.data.kind # "undefined" /\ cancelRefetch
         THEN startFetch(c)
         ELSE c
    ELSE startFetch(c)

\* onMutate without the cancellation of the running fetch
cancelQueriesSkipped(c) == c

\* queryClient.cancelQueries({ queryKey: ['images'] }): the running fetch is
\* cancelled (its response will be ignored) and the query goes back to the
\* state it had when the fetch began
cancelQueries(c) ==
    IF c.query.fetchStatus # "idle"
    THEN [c EXCEPT
            !.query = [c.revertState EXCEPT !.fetchStatus = "idle"],
            !.revertState = InitialQuery,
            !.retryer = IdleRetryer]
    ELSE c

\* queryClient.setQueryData(['images'], d): an undefined value is ignored
setQueryData(c, d) ==
    IF d.kind = "undefined"
    THEN c
    ELSE [c EXCEPT !.query = [@ EXCEPT !.data = d, !.status = "success",
                                       !.error = "none"]]

\* queryClient.invalidateQueries({ queryKey: ['images'] }): the mounted query
\* is refetched, replacing a fetch that is running
invalidateQueries(c) == fetch(c, TRUE)

\* --------------------------------------------------------- deleteImage hooks
\* the updater given to setQueryData in onMutate
updater(pg, old, id) ==
    IF old.kind = "array"
    THEN ArrayData(filterOut(old.list, id))
    ELSE IF pg = "part_000" THEN ArrayData(<<>>) ELSE NoData

\* old.filter is not a function when the cached value is no array
updaterThrows(old) == old.kind = "object"

\* onMutate up to its return: cancel, snapshot, optimistic removal
onMutate(c, pg, id) ==
    LET c1 == cancelQueries(c)
        previous == c1.query.data
    IN  [client |-> IF updaterThrows(previous)
                    THEN c1
                    ELSE setQueryData(c1, updater(pg, previous, id)),
         previous |-> previous,
         threw |-> updaterThrows(previous)]

\* a rollback that leaves the optimistic removal in place
onErrorKeepsRemoval(c, m) == c

\* onError: if (ctx?.previous) setQueryData(['images'], ctx.previous)
onError(c, m) ==
    IF m.hasCtx /\ m.previous.kind # "undefined"
    THEN setQueryData(c, m.previous)
    ELSE c

\* a settlement that joins a fetch already running instead of refetching
onSettledJoinsFetch(c) == fetch(c, FALSE)

\* a settlement that starts no refetch
onSettledSkipped(c) == c

\* onSettled
onSettled(c) == invalidateQueries(c)

\* ------------------------------------------------------------------- state
ImagesStart(pg) ==
    /\ page = pg
    /\ server = ImageIds
    /\ LET c == startFetch([query |-> InitialQuery, revertState |-> InitialQuery,
                            retryer |-> IdleRetryer, issued |-> 0])
       IN  /\ query = c.query
           /\ revertState = c.revertState
           /\ retryer = c.retryer
    /\ mutations = <<>>
    /\ selected = NoSelection
    /\ staleApplied = FALSE
    /\ serverHist = {ImageIds}

AnnotationsIdle ==
    /\ annMounted = FALSE
    /\ imageId = NoSelection
    /\ annotations = <<>>
    /\ color = "#ff1744"
    /\ crashed = FALSE
    /\ counterRef = 0
    /\ annOps = 0
    /\ lastOp = "none"

InitImages ==
    /\ \E pg \in Pages : ImagesStart(pg)
    /\ AnnotationsIdle
    /\ localStorage = [b \in ImageIds |-> Absent]

\* the grid and the dialog are rendered: not loading, no error, data present
UIShown == query.status = "success"

\* ----------------------------------------------------------------- actions
\* the response to the GET of the running load arrives
LoadResponse(kind) ==
    /\ retryer.phase = "inflight"
    /\ LET payload == [kind |-> kind, list |-> serverList(server)]
           r == fetchImages(page, payload)
           n == query.fetchFailureCount
       IN  IF r.ok
           THEN /\ query' = [data |-> r.data, status |-> "success",
                             error |-> "none", fetchStatus |-> "idle",
                             fetchFailureCount |-> 0]
                /\ revertState' = InitialQuery
                /\ retryer' = IdleRetryer
                /\ staleApplied' = retryer.deleteSince
           ELSE IF retry(page, n, r.error)
           THEN /\ query' = [query EXCEPT !.fetchFailureCount = n + 1]
                /\ retryer' = [retryer EXCEPT !.phase = "backoff",
                                              !.lastFailure = r.error]
                /\ UNCHANGED <<revertState, staleApplied>>
           ELSE /\ query' = [query EXCEPT !.status = "error",
                                          !.error = r.error,
                                          !.fetchStatus = "idle",
                                          !.fetchFailureCount = n + 1]
                /\ revertState' = InitialQuery
                /\ retryer' = IdleRetryer
                /\ UNCHANGED staleApplied
    /\ UNCHANGED <<page, server, mutations, selected, serverHist, annVars>>

\* the retry delay of the running load is over: the next attempt goes out
RetryTimer ==
    /\ retryer.phase = "backoff"
    /\ retryer' = [retryer EXCEPT !.phase = "inflight"]
    /\ UNCHANGED <<page, server, query, revertState, mutations, selected,
                   staleApplied, serverHist, annVars>>

\* refetchOnWindowFocus: the window regains focus while no fetch is running
FocusRefetch ==
    /\ query.fetchStatus = "idle"
    /\ Commit(fetch(Client, FALSE))
    /\ UNCHANGED <<page, server, mutations, selected, staleApplied, serverHist, annVars>>

\* the Delete button of a card: onClick={() => setSelected(img.id)}
RequestDelete(id) ==
    /\ UIShown
    /\ selected = NoSelection
    /\ query.data.kind = "array"
    /\ id \in Range(query.data.list)
    /\ selected' = id
    /\ UNCHANGED <<page, server, query, revertState, retryer, mutations,
                   staleApplied, serverHist, annVars>>

\* ConfirmDialog onClose
CancelDelete ==
    /\ UIShown
    /\ selected # NoSelection
    /\ selected' = NoSelection
    /\ UNCHANGED <<page, server, query, revertState, retryer, mutations,
                   staleApplied, serverHist, annVars>>

\* a DELETE request that goes out before onMutate has run
requestSeesBeforeMutate(before, after) == before

\* useMutation runs mutationFn once onMutate has resolved: the cache the
\* DELETE request leaves behind it is the one onMutate produced
requestSees(before, after) == after

\* the guard of onConfirm before deleteImage.mutate
confirmGuard(pg, sel) == IF pg = "next.js" THEN sel # 0 ELSE sel # NoSelection

\* deleteImage.mutate(id): onMutate, then the DELETE request goes out; when
\* onMutate throws no request is made and onError/onSettled run at once.
\* A load still running after onMutate has been followed by this delete.
mutate(id) ==
    LET om == onMutate(Client, page, id)
        m0 == [id |-> id, previous |-> om.previous, hasCtx |-> ~om.threw,
               wasShown |-> id \in Range(om.previous.list),
               requested |-> ~om.threw,
               shownAtRequest |->
                   /\ ~om.threw
                   /\ id \in Range(requestSees(Client, om.client).query.data.list),
               status |-> "pending", refetches |-> 0]
        c1 == IF om.threw
              THEN onSettled(onError([om.client EXCEPT !.issued = 0], m0))
              ELSE [om.client EXCEPT
                       !.retryer.deleteSince = (om.client.retryer.phase # "idle")]
        m1 == IF om.threw
              THEN [m0 EXCEPT !.status = "error", !.refetches = c1.issued,
                              !.previous = NoData]
              ELSE m0
    IN  /\ Commit(c1)
        /\ mutations' = Append(mutations, m1)

\* ConfirmDialog onConfirm
ConfirmDelete ==
    /\ UIShown
    /\ selected # NoSelection
    /\ IF confirmGuard(page, selected)
       THEN /\ Len(mutations) < MaxDeletes
            /\ mutate(selected)
       ELSE UNCHANGED <<query, revertState, retryer, mutations>>
    /\ selected' = NoSelection
    /\ UNCHANGED <<page, server, staleApplied, serverHist, annVars>>

\* DELETE /images/{id} succeeds: onSettled
DeleteSucceeds(i) ==
    /\ i \in 1 .. Len(mutations)
    /\ mutations[i].status = "pending"
    /\ mutations[i].id \in server
    /\ server' = server \ {mutations[i].id}
    /\ serverHist' = serverHist \cup {server'}
    /\ LET c == onSettled(Client)
       IN  /\ Commit(c)
           /\ mutations' = [mutations EXCEPT ![i].status = "success",
                                             ![i].refetches = @ + c.issued,
                                             ![i].previous = NoData]
    /\ UNCHANGED <<page, selected, staleApplied, annVars>>

\* DELETE /images/{id} fails (network, timeout, 404): onError, then onSettled
DeleteFails(i) ==
    /\ i \in 1 .. Len(mutations)
    /\ mutations[i].status = "pending"
    /\ LET c == onSettled(onError(Client, mutations[i]))
       IN  /\ Commit(c)
           /\ mutations' = [mutations EXCEPT ![i].status = "error",
                                             ![i].refetches = @ + c.issued,
                                             ![i].previous = NoData]
    /\ UNCHANGED <<page, server, selected, staleApplied, serverHist, annVars>>

NextImages ==
    \/ \E kind \in {"array", "object", "transport"} : LoadResponse(kind)
    \/ RetryTimer
    \/ FocusRefetch
    \/ \E id \in ImageIds : RequestDelete(id)
    \/ CancelDelete
    \/ ConfirmDelete
    \/ \E i \in 1 .. MaxDeletes : DeleteSucceeds(i)
    \/ \E i \in 1 .. MaxDeletes : DeleteFails(i)

Spec == InitImages /\ [][NextImages]_vars

\* Scheduling: every GET and every DELETE is answered or fails in the end,
\* and the retry delay of a load runs out. Focus events and the user's
\* clicks may or may not happen.
SpecLive ==
    /\ InitImages
    /\ [][NextImages]_vars
    /\ WF_vars(\E kind \in {"array", "object", "transport"} : LoadResponse(kind))
    /\ WF_vars(RetryTimer)
    /\ \A i \in 1 .. MaxDeletes : WF_vars(DeleteSucceeds(i) \/ DeleteFails(i))

\* ------------------------------------------------------- annotation store
\* JSON.stringify of an Annotation[]
RECURSIVE annotationTokens(_)
annotationTokens(anns) ==
    IF anns = <<>>
    THEN <<>>
    ELSE LET a == Head(anns)
         IN  <<Str(a.id), Num(a.x), Num(a.y), Num(a.width), Num(a.height),
               Str(a.color)>> \o annotationTokens(Tail(anns))

JSONstringify(anns) == <<LB>> \o annotationTokens(anns) \o <<RB>>

WellFormed(text) ==
    /\ Len(text) >= 2
    /\ text[1] = LB
    /\ text[Len(text)] = RB
    /\ (Len(text) - 2) % 6 = 0
    /\ \A k \in 0 .. ((Len(text) - 2) \div 6 - 1) :
          /\ text[2 + 6 * k].t = "str"
          /\ \A j \in 1 .. 4 : text[2 + 6 * k + j].t = "num"
          /\ text[2 + 6 * k + 5].t = "str"

\* JSON.parse: throws (ok = FALSE) on text that is no complete document
JSONparse(text) ==
    IF ~WellFormed(text)
    THEN [ok |-> FALSE, value |-> <<>>]
    ELSE [ok |-> TRUE,
          value |-> [k \in 1 .. ((Len(text) - 2) \div 6) |->
                        LET o == 2 + 6 * (k - 1)
                        IN  [id |-> text[o].s, x |-> text[o + 1].n,
                             y |-> text[o + 2].n, width |-> text[o + 3].n,
                             height |-> text[o + 4].n, color |-> text[o + 5].s]]]

\* a truncated payload
Malformed == <<LB, Str("t1-r1"), Num(60)>>

\* first effect of useAnnotations: getItem, and setAnnotations(JSON.parse(saved))
\* when the value is truthy
loadEffect(store, b) ==
    LET saved == store[b]
    IN  IF ~(saved.present /\ saved.text # <<>>)
        THEN [set |-> FALSE, throws |-> FALSE, value |-> <<>>]
        ELSE LET r == JSONparse(saved.text)
             IN  [set |-> r.ok, throws |-> ~r.ok, value |-> r.value]

\* a persist effect that writes nothing
persistEffectSkipped(store, b, anns) == store

\* second effect of useAnnotations: setItem(`ann_${imageId}`, JSON.stringify(annotations))
persistEffect(store, b, anns) ==
    [store EXCEPT ![b] = Stored(JSONstringify(anns))]

\* the commit after a mount or a change of imageId: both effects run with the
\* annotations of that render; a state set by the first effect renders again
\* and the second effect runs once more. An error thrown by the first effect
\* leaves the second one running and then unmounts the page.
commitImage(store, b, anns) ==
    LET le == loadEffect(store, b)
        s1 == persistEffect(store, b, anns)
    IN  IF le.throws
        THEN [annotations |-> <<>>, localStorage |-> s1, crashed |-> TRUE]
        ELSE IF le.set
        THEN [annotations |-> le.value,
              localStorage |-> persistEffect(s1, b, le.value),
              crashed |-> FALSE]
        ELSE [annotations |-> anns, localStorage |-> s1, crashed |-> FALSE]

\* addAnnotation(color)
addAnnotation(prev, id, c) ==
    Append(prev, [id |-> id, x |-> 60, y |-> 60, width |-> 160, height |-> 100,
                  color |-> c])

\* part_000 addAnnotation: the offset grows with the creation counter
addAnnotationOffset(prev, id, counter) ==
    Append(prev, [id |-> id, x |-> 50 + counter * 6, y |-> 50 + counter * 6,
                  width |-> 160, height |-> 100])

\* a remove that drops the oldest annotation when the id is not in the set
removeAnnotationOrOldest(prev, id) ==
    IF \E k \in 1 .. Len(prev) : prev[k].id = id
    THEN SelectSeq(prev, LAMBDA a : a.id # id)
    ELSE IF prev = <<>> THEN prev ELSE Tail(prev)

\* removeAnnotation(id)
removeAnnotation(prev, id) == SelectSeq(prev, LAMBDA a : a.id # id)

\* onDragEnd of the rectangle of annotation id
onDragEnd(prev, id, pos) ==
    [k \in 1 .. Len(prev) |->
        IF prev[k].id = id
        THEN [prev[k] EXCEPT !.x = pos[1], !.y = pos[2]]
        ELSE prev[k]]

AnnotationIds == {annotations[k].id : k \in 1 .. Len(annotations)}

\* an id generator that may hand out an id the set already holds
generatedIdsRepeating(anns) == AnnIds

\* `${Date.now()}-${Math.random()}` and crypto.randomUUID(): the ids a call may
\* produce, none of them held by an annotation of the set
generatedIds(anns) == AnnIds \ {anns[k].id : k \in 1 .. Len(anns)}

InitAnnotations ==
    /\ \E pg \in Pages : ImagesStart(pg)
    /\ AnnotationsIdle
    /\ localStorage \in [ImageIds -> {Absent, Stored(Malformed)}]

\* {first && <AnnotationCanvas image={first} />}: the canvas appears
MountCanvas(b) ==
    /\ ~crashed
    /\ ~annMounted
    /\ annOps < MaxAnnOps
    /\ IF page = "next.js"
       THEN LET r == commitImage(localStorage, b, <<>>)
            IN  /\ annotations' = r.annotations
                /\ localStorage' = r.localStorage
                /\ crashed' = r.crashed
                /\ annMounted' = ~r.crashed
       ELSE /\ annotations' = <<>>
            /\ annMounted' = TRUE
            /\ UNCHANGED <<localStorage, crashed>>
    /\ imageId' = b
    /\ color' = "#ff1744"
    /\ counterRef' = 0
    /\ annOps' = annOps + 1
    /\ lastOp' = "mount"
    /\ UNCHANGED imgVars

\* the first image of the list is another one: the mounted canvas is
\* rendered with a new image prop and keeps its state
ChangeImage(b) ==
    /\ annMounted
    /\ b # imageId
    /\ annOps < MaxAnnOps
    /\ IF page = "next.js"
       THEN LET r == commitImage(localStorage, b, annotations)
            IN  /\ annotations' = r.annotations
                /\ localStorage' = r.localStorage
                /\ crashed' = r.crashed
                /\ annMounted' = ~r.crashed
                /\ color' = IF r.crashed THEN "#ff1744" ELSE color
       ELSE UNCHANGED <<annotations, localStorage, crashed, annMounted, color>>
    /\ imageId' = b
    /\ annOps' = annOps + 1
    /\ lastOp' = "change"
    /\ UNCHANGED counterRef
    /\ UNCHANGED imgVars

\* the list has no first image, or Content renders its loading/error branch
UnmountCanvas ==
    /\ annMounted
    /\ annMounted' = FALSE
    /\ imageId' = NoSelection
    /\ annotations' = <<>>
    /\ color' = "#ff1744"
    /\ counterRef' = 0
    /\ lastOp' = "unmount"
    /\ UNCHANGED <<localStorage, crashed, annOps>>
    /\ UNCHANGED imgVars

\* the colour Select
SetColor(c) ==
    /\ page = "next.js"
    /\ annMounted
    /\ c # color
    /\ color' = c
    /\ UNCHANGED <<annMounted, imageId, annotations, localStorage, crashed,
                   counterRef, annOps, lastOp>>
    /\ UNCHANGED imgVars

\* the Add Annotation button; in next.js the persist effect follows
AddAnnotation(id) ==
    /\ annMounted
    /\ Len(annotations) < MaxAnnotations
    /\ annOps < MaxAnnOps
    /\ id \in generatedIds(annotations)
    /\ IF page = "next.js"
       THEN /\ annotations' = addAnnotation(annotations, id, color)
            /\ localStorage' = persistEffect(localStorage, imageId, annotations')
            /\ UNCHANGED counterRef
       ELSE /\ counterRef' = counterRef + 1
            /\ annotations' = addAnnotationOffset(annotations, id, counterRef')
            /\ UNCHANGED localStorage
    /\ annOps' = annOps + 1
    /\ lastOp' = "add"
    /\ UNCHANGED <<annMounted, imageId, color, crashed>>
    /\ UNCHANGED imgVars

\* onDblClick of a rectangle, then the persist effect
RemoveAnnotation(id) ==
    /\ page = "next.js"
    /\ annMounted
    /\ id \in AnnotationIds
    /\ annOps < MaxAnnOps
    /\ annotations' = removeAnnotation(annotations, id)
    /\ localStorage' = persistEffect(localStorage, imageId, annotations')
    /\ annOps' = annOps + 1
    /\ lastOp' = "remove"
    /\ UNCHANGED <<annMounted, imageId, color, crashed, counterRef>>
    /\ UNCHANGED imgVars

\* a rectangle is dropped at pos, then the persist effect
DragEnd(id, pos) ==
    /\ page = "next.js"
    /\ annMounted
    /\ id \in AnnotationIds
    /\ annOps < MaxAnnOps
    /\ annotations' = onDragEnd(annotations, id, pos)
    /\ localStorage' = persistEffect(localStorage, imageId, annotations')
    /\ annOps' = annOps + 1
    /\ lastOp' = "move"
    /\ UNCHANGED <<annMounted, imageId, color, crashed, counterRef>>
    /\ UNCHANGED imgVars

\* the page is loaded again: component state is gone, localStorage stays
Reload ==
    /\ annMounted \/ crashed
    /\ annMounted' = FALSE
    /\ imageId' = NoSelection
    /\ annotations' = <<>>
    /\ color' = "#ff1744"
    /\ crashed' = FALSE
    /\ counterRef' = 0
    /\ lastOp' = "reload"
    /\ UNCHANGED <<localStorage, annOps>>
    /\ UNCHANGED imgVars

NextAnnotations ==
    \/ \E b \in ImageIds : MountCanvas(b)
    \/ \E b \in ImageIds : ChangeImage(b)
    \/ UnmountCanvas
    \/ \E c \in Colors : SetColor(c)
    \/ \E id \in AnnIds : AddAnnotation(id)
    \/ \E id \in AnnIds : RemoveAnnotation(id)
    \/ \E id \in AnnIds, pos \in DragTargets : DragEnd(id, pos)
    \/ Reload

SpecAnnotations == InitAnnotations /\ [][NextAnnotations]_vars

\* ================================================================== claims
Pending == {i \in 1 .. Len(mutations) : mutations[i].status = "pending"}
PendingIds == {mutations[i].id : i \in Pending}
Items == query.data.list

\* list with the ids of R removed, order kept
without(list, R) == SelectSeq(list, LAMBDA i : i \notin R)

\* C1: when the DELETE request of a delete fails, the items right after the
\* rollback are, element for element and in order, the items captured just
\* before that delete's optimistic removal, so the deleted id is back
RollbackRestoresSnapshot ==
    [][\A i \in 1 .. Len(mutations) :
          (mutations[i].status = "pending" /\ mutations'[i].status = "error")
          => /\ query'.data = mutations[i].previous
             /\ mutations[i].wasShown
                => mutations[i].id \in Range(query'.data.list)]_vars

\* a delete of a shown id has failed while another delete is still pending,
\* and the id is in the items again
RollbackWitness ==
    \E i \in 1 .. Len(mutations) :
        /\ mutations[i].status = "error"
        /\ mutations[i].wasShown
        /\ mutations[i].hasCtx
        /\ query.data.kind = "array"
        /\ mutations[i].id \in Range(Items)
        /\ Pending # {}

\* C2: every delete triggers exactly one load at its settlement, whether its
\* request succeeded or failed, and none before
SettlementRefetchesOnce ==
    \A i \in 1 .. Len(mutations) :
        mutations[i].refetches = IF mutations[i].status = "pending" THEN 0 ELSE 1

\* one delete has settled with success and another with failure
SettlementWitness ==
    \E i, j \in 1 .. Len(mutations) :
        /\ mutations[i].status = "success"
        /\ mutations[j].status = "error"
        /\ mutations[j].hasCtx

\* C3: while status is ready, items is a list the remote source has held with
\* only ids of pending deletes removed, in the same order
ItemsAreServerListMinusPending ==
    (query.status = "success" /\ query.data.kind = "array")
    => \E S \in serverHist : \E R \in SUBSET PendingIds :
          Items = without(serverList(S), R)

\* C4: a load's response is written to items only if no delete was issued
\* after that load was issued
StaleResponsesDiscarded == ~staleApplied /\ ~retryer.deleteSince

\* every delete has settled and the refetch of the last settlement has been
\* applied
AppliedAfterDeleteWitness ==
    /\ Len(mutations) = MaxDeletes
    /\ Pending = {}
    /\ \A i \in 1 .. Len(mutations) : mutations[i].hasCtx
    /\ query.fetchStatus = "idle"
    /\ query.status = "success"

\* C5: two deletes of the same id are never unsettled at the same time
NoDuplicatePendingDelete ==
    \A i, j \in Pending : mutations[i].id = mutations[j].id => i = j

\* C8: no fetch attempt is made for a load after a validation failure of it
ValidationFailureNotRetried ==
    ~(retryer.phase = "inflight" /\ retryer.lastFailure = "validation")

\* C9: once a delete of a shown id has failed, the id is in items until a
\* later delete of that id is issued
FailedDeleteKeepsItem ==
    \A i \in 1 .. Len(mutations) :
        ( /\ mutations[i].status = "error"
          /\ mutations[i].wasShown
          /\ mutations[i].hasCtx
          /\ \A j \in (i + 1) .. Len(mutations) : mutations[j].id # mutations[i].id
          /\ query.data.kind = "array" )
        => mutations[i].id \in Range(Items)

\* the annotation store of next.js is switched to image b: the canvas mounts
\* with it or is re-rendered with it
SwitchedTo(b) ==
    /\ page = "next.js"
    /\ ~crashed
    /\ ~annMounted \/ imageId # b
    /\ imageId' = b
    /\ annMounted' \/ crashed'

\* C6: switching to an image with no stored record gives the empty sequence
AbsentRecordLoadsEmpty ==
    [][\A b \in ImageIds :
          (SwitchedTo(b) /\ ~localStorage[b].present)
          => (annMounted' /\ annotations' = <<>>)]_vars

\* C10: switching to an image whose stored value cannot be parsed gives the
\* empty sequence and raises no error
MalformedRecordLoadsEmpty ==
    [][\A b \in ImageIds :
          ( /\ SwitchedTo(b)
            /\ localStorage[b].present
            /\ ~JSONparse(localStorage[b].text).ok )
          => (~crashed' /\ annMounted' /\ annotations' = <<>>)]_vars

\* loadFor(b) on a fresh page: what a newly mounted canvas holds for image b
loadFor(store, b) == commitImage(store, b, <<>>)

RemovalAppliedBeforeRequest ==
    \A i \in 1 .. Len(mutations) :
        mutations[i].requested => ~mutations[i].shownAtRequest

\* the request of a delete of a shown id is out and items lacks the id
RemovalBeforeRequestWitness ==
    \E i \in Pending :
        /\ mutations[i].requested
        /\ mutations[i].wasShown
        /\ query.data.kind = "array"
        /\ mutations[i].id \notin Range(Items)

\* C12: a response that is no array never becomes items with status ready
NonArrayNeverReady ==
    ~(query.status = "success" /\ query.data.kind = "object")

\* C13: a load makes at most 2 retries: no attempt is in flight after more
\* than 2 failures of the same load
RetryBounded ==
    retryer.phase = "inflight" => query.fetchFailureCount <= 2

\* C17: while a delete is unsettled and its removal was applied, items does
\* not hold its id
PendingIdStaysRemoved ==
    \A i \in Pending :
        (mutations[i].hasCtx /\ query.data.kind = "array")
        => mutations[i].id \notin Range(Items)

\* C20: in the open dialog, confirming issues the delete of the selected id
\* and clears the selection
ConfirmIssuesDelete ==
    (UIShown /\ selected # NoSelection /\ Len(mutations) < MaxDeletes)
    => ENABLED ( /\ ConfirmDelete
                 /\ Len(mutations') = Len(mutations) + 1
                 /\ mutations'[Len(mutations')].id = selected
                 /\ selected' = NoSelection )

SuccessiveAddsOffsetBySix ==
    [][(lastOp = "add" /\ lastOp' = "add" /\ annOps' = annOps + 1)
       => LET earlier == annotations[Len(annotations)]
              later   == annotations'[Len(annotations')]
          IN  /\ later.x = earlier.x + 6
              /\ later.y = earlier.y + 6]_vars

RECURSIVE othersOf(_, _)
\* the annotations of list whose id is not id, in the order of list
othersOf(list, id) ==
    IF list = <<>>
    THEN <<>>
    ELSE IF Head(list).id = id
         THEN othersOf(Tail(list), id)
         ELSE <<Head(list)>> \o othersOf(Tail(list), id)

\* C16: for every id, present or not, remove(id) twice leaves the set and the
\* stored value as remove(id) once does, and the other annotations stay as
\* they were, in order
RemoveIsIdempotent ==
    (page = "next.js" /\ annMounted)
    => \A id \in AnnIds :
          LET once   == removeAnnotation(annotations, id)
              s1     == persistEffect(localStorage, imageId, once)
              twice  == removeAnnotation(once, id)
              s2     == persistEffect(s1, imageId, twice)
          IN  /\ twice = once
              /\ s2 = s1
              /\ once = othersOf(annotations, id)

\* a remove has run and left another annotation in the set
RemoveWitness ==
    page = "next.js" /\ annMounted /\ lastOp = "remove" /\ Len(annotations) >= 1

\* C19: the value stored for image b changes only by an operation made while
\* b is the image shown (writing the empty list for a newly shown image aside)
StoredChangesOnlyWhileShown ==
    [][\A b \in ImageIds :
          localStorage'[b] # localStorage[b]
          => \/ annMounted /\ imageId = b /\ imageId' = b
             \/ localStorage'[b] = Stored(JSONstringify(<<>>))]_vars

\* every delete is settled, no load is running, status is ready and items is
\* the list the remote source holds
Synced ==
    /\ Pending = {}
    /\ query.fetchStatus = "idle"
    /\ query.status = "success"
    /\ query.data = ArrayData(serverList(server))

\* no load has ended in an error or with a payload that is no list
FetchesSucceed ==
    query.status # "error" /\ query.data.kind # "object"

\* C18: when loads succeed from some point on, the page is synced again and
\* again: after the last delete has settled a load ends with items equal to
\* the list of the remote source
EventuallyResynced ==
    <>[]FetchesSucceed => []<>Synced

\* two deletes have settled, one of them failed, and the page is synced with
\* the remote source
ResyncedWitness ==
    /\ Synced
    /\ Len(mutations) = 2
    /\ \E i \in 1 .. 2 : mutations[i].status = "error"
    /\ \E i \in 1 .. 2 : mutations[i].status = "success"

====
